---- MODULE Spec2Model ----
(***************************************************************************)
(* checkinmate: the /places request path.                                  *)
(*                                                                         *)
(* Coordinates are integers in units of 1e-7 degree (so 0.0001 degree is   *)
(* 1000 units and the 6th decimal place is 10 units); distances are whole  *)
(* metres; time is in milliseconds.                                        *)
(***************************************************************************)
EXTENDS Integers, Sequences, FiniteSets, TLC

VARIABLES
    now,        \* Date.now(), in milliseconds
    ticks,      \* how often the clock has advanced
    cache,      \* the LRUCache: key -> [value, start, written]
    store,      \* the places collection: a set of documents
    req,        \* the requests in flight, one per slot
    arrivals,   \* how many requests have arrived
    mLocal,     \* getCombinedData: the mongoData argument
    mExt,       \* getCombinedData: what OverpassService.queryPlaces returned
    mLimit,     \* getCombinedData: the limit argument
    mOut,       \* getCombinedData: the returned page
    mPc,        \* "input" before the call, "merged" after it
    fIn,        \* the arguments of a function exercised alone
    fOut,       \* what it returned
    fPc,        \* "unused", or "input" before the call, "applied" after it
    rateLimitStore, \* the rate limiter's Map: client key -> [count, resetTime]
    gate        \* what the rate limiter answered to the latest request

mergeVars == <<mLocal, mExt, mLimit, mOut, mPc>>

sysVars == <<now, ticks, cache, store, req, arrivals>>

pureVars == <<fIn, fOut, fPc>>

limiterVars == <<rateLimitStore, gate>>

vars == <<now, ticks, cache, store, req, arrivals,
          mLocal, mExt, mLimit, mOut, mPc, fIn, fOut, fPc,
          rateLimitStore, gate>>

\* ---------------------------------------------------------------- bounds
MaxLocal == 2       \* longest mongoData list drawn for the merge
MaxExt == 2         \* longest external list drawn for the merge
MaxLimit == 2       \* largest limit drawn for the merge
MaxTicks == 2       \* how often the clock advances
MaxArrivals == 3    \* how many requests arrive
MaxQueryLimit == 2  \* largest limit a request asks for
MaxElements == 2    \* longest Overpass answer drawn for parseResponse

\* ------------------------------------------------------------- constants
\* 0.0001 degree, the tolerance of removeDuplicates, in 1e-7 degree units
DedupTolerance == 1000

\* The value a JavaScript number holds when it is NaN.
NaN == -1

\* The query point of the merge (lat, lon), in 1e-7 degree units.
QueryLat == 0
QueryLon == 0

\* --------------------------------------------------------------- helpers
Range(s) == {s[i] : i \in 1..Len(s)}

Abs(x) == IF x < 0 THEN -x ELSE x

Min(a, b) == IF a < b THEN a ELSE b

RECURSIVE ISqrtFrom(_, _)
ISqrtFrom(n, r) == IF (r + 1) * (r + 1) > n THEN r ELSE ISqrtFrom(n, r + 1)

\* Integer square root; arguments are squared offsets already scaled down
\* to metres, so the search is short.
ISqrt(n) == ISqrtFrom(n, 0)

\* ------------------------------------------------------------- distances
\* The distance with the second point's latitude and longitude exchanged.
calculateDistanceSwapped(lat1, lon1, lat2, lon2) ==
    LET dLat == Abs(lon2 - lat1) \div 90
        dLon == Abs(lat2 - lon1) \div 90
    IN  ISqrt(dLat * dLat + dLon * dLon)

\* Haversine distance in metres.  For the offsets of the model (well under
\* one degree, next to the equator) the formula reduces to
\* R * sqrt(dLat^2 + dLon^2) with the angles in radians: one unit of 1e-7
\* degree is 0.0111 m, i.e. 90 units to the metre.
calculateDistance(lat1, lon1, lat2, lon2) ==
    LET dLat == Abs(lat2 - lat1) \div 90
        dLon == Abs(lon2 - lon1) \div 90
    IN  ISqrt(dLat * dLat + dLon * dLon)

\* ---------------------------------------------------------- merge engine
\* place && place.coordinates && Array.isArray(place.coordinates.coordinates)
\* (a record without a coordinate array carries the empty tuple)
HasCoordinateArray(place) == place.coordinates # <<>>

\* fetchAndProcessOverpassData, after queryPlaces has returned overpassData:
\* keep the records with a coordinate array and annotate each with its
\* distance from the query point.  A one-element array leaves placeLat
\* undefined, and the distance is then NaN.
ProcessOverpassData(overpassData, lat, lon) ==
    LET kept == SelectSeq(overpassData, HasCoordinateArray)
        WithDistance(place) ==
            LET c == place.coordinates
                distance == IF Len(c) >= 2 /\ c[1] # NaN /\ c[2] # NaN
                            THEN calculateDistance(lat, lon, c[2], c[1])
                            ELSE NaN
            IN  [place EXCEPT !.distance = distance]
    IN  [i \in 1..Len(kept) |-> WithDistance(kept[i])]

\* isValidPlace without its test for a name.
isValidPlaceUnnamed(place) ==
    /\ HasCoordinateArray(place)
    /\ Len(place.coordinates) = 2

isValidPlace(place) ==
    /\ place.name # ""
    /\ HasCoordinateArray(place)
    /\ Len(place.coordinates) = 2

\* removeDuplicates comparing the coordinates with === instead of a tolerance.
SamePlaceExact(p, place) ==
    /\ p.name = place.name
    /\ p.coordinates[1] = place.coordinates[1]
    /\ p.coordinates[2] = place.coordinates[2]

\* Math.abs(a - b) < 0.0001: false as soon as one side is NaN
CloserThanTolerance(a, b) ==
    a # NaN /\ b # NaN /\ Abs(a - b) < DedupTolerance

\* The predicate handed to findIndex inside removeDuplicates.
\* Both records have passed isValidPlace when it runs.
SamePlace(p, place) ==
    /\ p.name = place.name
    /\ CloserThanTolerance(p.coordinates[1], place.coordinates[1])
    /\ CloserThanTolerance(p.coordinates[2], place.coordinates[2])

\* self.findIndex(p => SamePlace(p, place)): the first match, or -1.  A
\* record with a NaN coordinate does not even match itself.
FindIndex(self, place) ==
    IF \E i \in 1..Len(self) : SamePlace(self[i], place)
    THEN CHOOSE i \in 1..Len(self) :
            /\ SamePlace(self[i], place)
            /\ \A j \in 1..(i - 1) : ~SamePlace(self[j], place)
    ELSE -1

removeDuplicates(place, index, self) == index = FindIndex(self, place)

RECURSIVE FilterRemoveDuplicates(_, _)
\* self.filter(removeDuplicates): the callback receives the record, its
\* index and the whole array being filtered.
FilterRemoveDuplicates(self, index) ==
    IF index > Len(self) THEN <<>>
    ELSE (IF removeDuplicates(self[index], index, self)
          THEN <<self[index]>> ELSE <<>>)
         \o FilterRemoveDuplicates(self, index + 1)

\* (a.distance || 0): NaN and 0 are falsy
DistanceOrZero(place) == IF place.distance = NaN THEN 0 ELSE place.distance

\* The comparator with its operands swapped: farthest first.
CompareDistanceDescending(a, b) == DistanceOrZero(b) - DistanceOrZero(a)

\* The comparator of the sort: negative when a goes before b.
CompareDistance(a, b) == DistanceOrZero(a) - DistanceOrZero(b)

RECURSIVE InsertSorted(_, _)
\* Stable insertion: x goes after every element it does not precede.
InsertSorted(x, s) ==
    IF s = <<>> THEN <<x>>
    ELSE IF CompareDistance(x, Head(s)) < 0 THEN <<x>> \o s
    ELSE <<Head(s)>> \o InsertSorted(x, Tail(s))

RECURSIVE SortFrom(_, _, _)
SortFrom(s, i, acc) ==
    IF i > Len(s) THEN acc ELSE SortFrom(s, i + 1, InsertSorted(s[i], acc))

\* Array.prototype.sort with CompareDistance (a stable sort).  The array
\* is complete before the sort starts.
SortByDistance(s) ==
    LET sorted[array \in {s}] == SortFrom(array, 1, <<>>)
    IN  sorted[s]

\* .slice(0, limit)
Slice(s, limit) == SubSeq(s, 1, Min(limit, Len(s)))

\* getCombinedData concatenating the external records before the local ones.
getCombinedDataExternalFirst(mongoData, overpassData, lat, lon, limit) ==
    LET processed == ProcessOverpassData(overpassData, lat, lon)
        valid == SelectSeq(processed \o mongoData, isValidPlace)
        unique == FilterRemoveDuplicates(valid, 1)
    IN  Slice(SortByDistance(unique), limit)

\* getCombinedData truncating before it sorts.
getCombinedDataSliceFirst(mongoData, overpassData, lat, lon, limit) ==
    LET processed == ProcessOverpassData(overpassData, lat, lon)
        valid == SelectSeq(mongoData \o processed, isValidPlace)
        unique == FilterRemoveDuplicates(valid, 1)
    IN  SortByDistance(Slice(unique, limit))

\* getCombinedData, given what queryPlaces returned.
getCombinedData(mongoData, overpassData, lat, lon, limit) ==
    LET processed == ProcessOverpassData(overpassData, lat, lon)
        valid == SelectSeq(mongoData \o processed, isValidPlace)
        unique == FilterRemoveDuplicates(valid, 1)
    IN  Slice(SortByDistance(unique), limit)

\* ----------------------------------- the merge of the Express controller
\* The findIndex predicate of the Express controller's removeDuplicates:
\* the coordinates are compared with ===.
ExpressSamePlace(p, place) ==
    /\ p.name = place.name
    /\ p.coordinates[1] = place.coordinates[1]
    /\ p.coordinates[2] = place.coordinates[2]

ExpressFindIndex(self, place) ==
    CHOOSE i \in 1..Len(self) :
        /\ ExpressSamePlace(self[i], place)
        /\ \A j \in 1..(i - 1) : ~ExpressSamePlace(self[j], place)

ExpressRemoveDuplicates(place, index, self) ==
    index = ExpressFindIndex(self, place)

RECURSIVE ExpressFilterRemoveDuplicates(_, _)
ExpressFilterRemoveDuplicates(self, index) ==
    IF index > Len(self) THEN <<>>
    ELSE (IF ExpressRemoveDuplicates(self[index], index, self)
          THEN <<self[index]>> ELSE <<>>)
         \o ExpressFilterRemoveDuplicates(self, index + 1)

ExpressGetCombinedData(mongoData, overpassData, lat, lon, limit) ==
    LET processed == ProcessOverpassData(overpassData, lat, lon)
        valid == SelectSeq(mongoData \o processed, isValidPlace)
        unique == ExpressFilterRemoveDuplicates(valid, 1)
    IN  Slice(SortByDistance(unique), limit)

\* ------------------------------- the merge of the inline /places handler
\* The comparator of the inline handler: (b.distance || 0) - (a.distance || 0)
InlineCompareDistance(a, b) == DistanceOrZero(b) - DistanceOrZero(a)

RECURSIVE InlineInsertSorted(_, _)
InlineInsertSorted(x, s) ==
    IF s = <<>> THEN <<x>>
    ELSE IF InlineCompareDistance(x, Head(s)) < 0 THEN <<x>> \o s
    ELSE <<Head(s)>> \o InlineInsertSorted(x, Tail(s))

RECURSIVE InlineSortFrom(_, _, _)
InlineSortFrom(s, i, acc) ==
    IF i > Len(s) THEN acc
    ELSE InlineSortFrom(s, i + 1, InlineInsertSorted(s[i], acc))

\* The inline handler's filter, exact de-duplication, sort and slice.
InlineGetCombinedData(mongoData, overpassData, lat, lon, limit) ==
    LET processed == ProcessOverpassData(overpassData, lat, lon)
        valid == SelectSeq(mongoData \o processed, isValidPlace)
        unique == ExpressFilterRemoveDuplicates(valid, 1)
    IN  Slice(InlineSortFrom(unique, 1, <<>>), limit)

\* ------------------------------------------------------ the result cache
CACHE_TTL == 60 * 1000

\* The options the Elysia entry point builds the LRUCache with.
ElysiaCacheOptions == [updateAgeOnGet |-> TRUE, updateAgeOnHas |-> TRUE]

\* The options the Express entry point builds it with (the defaults).
ExpressCacheOptions == [updateAgeOnGet |-> FALSE, updateAgeOnHas |-> FALSE]

CacheOptions(ctl) ==
    IF ctl = "elysia" THEN ElysiaCacheOptions ELSE ExpressCacheOptions

\* toFixed(6) on a value in 1e-7 degree units: a minus sign when the value
\* is below zero, then the magnitude in millionths of a degree, rounded to
\* the nearest and up on a tie.  The sign is written before the rounding,
\* so a negative value that rounds to zero reads "-0.000000".
ToFixed6(x) == [minus |-> x < 0, millionths |-> (Abs(x) + 5) \div 10]

\* A key that leaves the limit out.
generateCacheKeyNoLimit(lat, lon, radius, page, limit) ==
    <<ToFixed6(lat), ToFixed6(lon), radius, page, 0>>

\* The key string lists these five components, separated by colons.
generateCacheKey(lat, lon, radius, page, limit) ==
    <<ToFixed6(lat), ToFixed6(lon), radius, page, limit>>

\* LRUCache: an entry is stale once its age exceeds the ttl.
CacheIsStale(c, key, t) == t - c[key].start > CACHE_TTL

\* LRUCache.has: true for a present entry that is not stale.
CacheHas(c, key, t) == key \in DOMAIN c /\ ~CacheIsStale(c, key, t)

\* LRUCache.has, its effect: with updateAgeOnHas a present, fresh entry has
\* its age reset.  A stale entry is left in place.
CacheAfterHas(c, key, t, options) ==
    IF CacheHas(c, key, t) /\ options.updateAgeOnHas
    THEN [c EXCEPT ![key].start = t]
    ELSE c

\* LRUCache.get, its effect: a stale entry is deleted; with updateAgeOnGet
\* a fresh one has its age reset.
CacheAfterGet(c, key, t, options) ==
    IF key \notin DOMAIN c THEN c
    ELSE IF CacheIsStale(c, key, t)
         THEN [k \in DOMAIN c \ {key} |-> c[k]]
    ELSE IF options.updateAgeOnGet THEN [c EXCEPT ![key].start = t]
    ELSE c

\* LRUCache.set: the entry is (re)written and its age starts now.  The
\* model never holds as many keys as the capacity (500), so no entry is
\* evicted for space.  `written` records when the value was stored.
CacheAfterSet(c, key, value, t) ==
    [k \in DOMAIN c \cup {key} |->
        IF k = key THEN [value |-> value, start |-> t, written |-> t]
        ELSE c[k]]

\* ------------------------------------------------------- the local store
\* A document as a query returns it; distance is absent (NaN) until
\* $geoNear or the controller fills it in.
AsPlace(doc, distance) ==
    [name |-> doc.name, coordinates |-> doc.coordinates,
     source |-> doc.source, updatedAt |-> doc.updatedAt,
     distance |-> distance]

\* The spherical distance the store computes for a document.
GeoDistance(doc, lat, lon) ==
    calculateDistance(lat, lon, doc.coordinates[2], doc.coordinates[1])

\* The orders in which the store may list a set of documents nearest
\* first: documents at the same distance come in any order.
NearestFirst(docs, lat, lon) ==
    {s \in [1..Cardinality(docs) -> docs] :
        /\ \A i, j \in 1..Cardinality(docs) : i # j => s[i] # s[j]
        /\ \A i \in 1..(Cardinality(docs) - 1) :
              GeoDistance(s[i], lat, lon) <= GeoDistance(s[i + 1], lat, lon)}

\* getMongoDBData: $geoNear within radius, $skip, $limit.
getMongoDBData(st, lat, lon, radius, page, limit) ==
    LET near == {d \in st : GeoDistance(d, lat, lon) <= radius}
        skip == (page - 1) * limit
    IN  {[i \in 1..(Min(skip + limit, Len(s)) - Min(skip, Len(s))) |->
            AsPlace(s[skip + i], GeoDistance(s[skip + i], lat, lon))] :
         s \in NearestFirst(near, lat, lon)}

\* ------------------------------------------------------- OverpassService
CACHE_DURATION == 24 * 60 * 60 * 1000

EXCLUDED_VALUES == {"bench", "waste_basket", "telephone", "parking",
                    "parking_space"}

\* 90 degrees and 180 degrees in 1e-7 degree units
Deg90 == 900000000
Deg180 == 1800000000

isValidCoordinate(lat, lon, radius) ==
    /\ lat >= -Deg90 /\ lat <= Deg90
    /\ lon >= -Deg180 /\ lon <= Deg180
    /\ radius > 0 /\ radius <= 10000

\* A $nearSphere query the store can run: a GeoJSON point inside the
\* coordinate bounds and a $maxDistance that is not negative.
IsGeoQuery(lat, lon, radius) ==
    /\ lat >= -Deg90 /\ lat <= Deg90
    /\ lon >= -Deg180 /\ lon <= Deg180
    /\ radius >= 0

\* getFromMongoDB: the overpass-sourced documents within radius, nearest
\* first.  A query the store rejects lands in the catch block, which
\* returns [].
getFromMongoDB(st, lat, lon, radius) ==
    IF ~IsGeoQuery(lat, lon, radius) THEN {<<>>}
    ELSE LET near == {d \in st : /\ GeoDistance(d, lat, lon) <= radius
                                 /\ d.source = "overpass"}
         IN  {[i \in 1..Len(s) |-> AsPlace(s[i], NaN)] :
              s \in NearestFirst(near, lat, lon)}

\* isCacheValid without its test for an empty list.
isCacheValidWhenEmpty(places, t) ==
    \A i \in 1..Len(places) : places[i].updatedAt > t - CACHE_DURATION

isCacheValid(places, t) ==
    /\ Len(places) # 0
    /\ \A i \in 1..Len(places) :
          places[i].updatedAt > t - CACHE_DURATION

\* An element without a center.  A coordinate that is absent or 0 is
\* falsy.
NoCenter == [lat |-> 0, lon |-> 0]

\* The filter of parseResponse without its exclusion test.
ElementIncludedAnyTag(element) ==
    /\ element.name # ""
    /\ \/ element.lat # 0 /\ element.lon # 0
       \/ element.center.lat # 0 /\ element.center.lon # 0

\* parseResponse: an element is kept when it has a name, no relevant tag
\* with an excluded value, and coordinates of its own or of its center.
ElementIncluded(element) ==
    /\ element.name # ""
    /\ element.tag \notin EXCLUDED_VALUES
    /\ \/ element.lat # 0 /\ element.lon # 0
       \/ element.center.lat # 0 /\ element.center.lon # 0

\* element.lat ? element.lat : element.center.lat, and the same for lon
ElementLat(element) ==
    IF element.lat # 0 THEN element.lat ELSE element.center.lat

ElementLon(element) ==
    IF element.lon # 0 THEN element.lon ELSE element.center.lon

parseResponse(elements, t) ==
    LET kept == SelectSeq(elements, ElementIncluded)
    IN  [i \in 1..Len(kept) |->
            [name |-> kept[i].name,
             coordinates |-> <<ElementLon(kept[i]), ElementLat(kept[i])>>,
             source |-> "overpass", updatedAt |-> t, distance |-> NaN]]

\* The _id of a newly inserted document: one no document has.
NewId(st) ==
    IF st = {} THEN 1
    ELSE 1 + (CHOOSE n \in {d.id : d \in st} : \A d \in st : d.id <= n)

\* An updateOne whose filter never matches: every place is inserted.
UpsertPlaceInsertOnly(st, place, t) ==
    st \cup {[id |-> NewId(st), name |-> place.name,
              coordinates |-> place.coordinates,
              source |-> "overpass", updatedAt |-> t]}

\* An updateOne whose filter also asks for source 'overpass': a document
\* of another source is not matched and the place is inserted beside it.
UpsertPlaceOverpassOnly(st, place, t) ==
    LET matching == {d \in st : /\ d.name = place.name
                                /\ d.coordinates = place.coordinates
                                /\ d.source = "overpass"}
    IN  IF matching = {}
        THEN st \cup {[id |-> NewId(st), name |-> place.name,
                       coordinates |-> place.coordinates,
                       source |-> "overpass", updatedAt |-> t]}
        ELSE {IF d \in matching THEN [d EXCEPT !.updatedAt = t] ELSE d :
              d \in st}

\* One updateOne of storeInMongoDB: the document with this name and these
\* coordinates is overwritten, or a new one is inserted.  The store
\* decides each upsert as one step: its unique index on (name,
\* coordinates) lets no second document with the same key in.
UpsertPlace(st, place, t) ==
    LET matching == {d \in st : /\ d.name = place.name
                                /\ d.coordinates = place.coordinates}
    IN  IF matching = {}
        THEN st \cup {[id |-> NewId(st), name |-> place.name,
                       coordinates |-> place.coordinates,
                       source |-> "overpass", updatedAt |-> t]}
        ELSE LET d == CHOOSE m \in matching :
                          \A o \in matching : m.id <= o.id
             IN  (st \ {d}) \cup
                 {[d EXCEPT !.source = "overpass", !.updatedAt = t]}

RECURSIVE BulkWrite(_, _, _, _)
\* storeInMongoDB: the bulkWrite of one upsert per place.
BulkWrite(st, places, i, t) ==
    IF i > Len(places) THEN st
    ELSE BulkWrite(UpsertPlace(st, places[i], t), places, i + 1, t)

storeInMongoDB(st, places, t) == BulkWrite(st, places, 1, t)

\* ------------------------------------------------ inputs of the merge
\* A record as $geoNear returns it: with its distance from the query point.
LocalRecord(name, lon, lat, src) ==
    [name |-> name, coordinates |-> <<lon, lat>>, source |-> src,
     distance |-> calculateDistance(QueryLat, QueryLon, lat, lon)]

\* A record as queryPlaces returns it: no distance yet.
ExternalRecord(name, coords) ==
    [name |-> name, coordinates |-> coords, source |-> "overpass",
     distance |-> NaN]

MergeLocalRecords ==
    {LocalRecord("Cafe", 0, 0, "mongodb"),
     LocalRecord("Cafe", 0, 2000, "mongodb"),
     LocalRecord("", 0, 0, "mongodb")}

MergeExternalRecords ==
    {ExternalRecord("Cafe", <<500, 0>>),
     ExternalRecord("Cafe", <<1000, 0>>),
     ExternalRecord("Bar", <<500, 0>>),
     ExternalRecord("Cafe", <<0>>),
     ExternalRecord("Cafe", <<>>),
     ExternalRecord("Zoo", <<NaN, 0>>)}

SeqsUpTo(S, n) == UNION {[1..k -> S] : k \in 0..n}

\* No function is exercised alone.
PureAtRest == fIn = <<>> /\ fOut = <<>> /\ fPc = "unused"

\* No request has passed the rate limiter.
LimiterAtRest == rateLimitStore = <<>> /\ gate = <<>>

\* The request path stands still while the merge is exercised alone.
SystemAtRest ==
    /\ now = 0
    /\ ticks = 0
    /\ cache = <<>>
    /\ store = {}
    /\ req = <<>>
    /\ arrivals = 0

MergeInit ==
    /\ mLocal \in SeqsUpTo(MergeLocalRecords, MaxLocal)
    /\ mExt \in SeqsUpTo(MergeExternalRecords, MaxExt)
    /\ mLimit \in 1..MaxLimit
    /\ mOut = <<>>
    /\ mPc = "input"
    /\ SystemAtRest
    /\ PureAtRest
    /\ LimiterAtRest

CallGetCombinedData ==
    /\ mPc = "input"
    /\ mOut' = getCombinedData(mLocal, mExt, QueryLat, QueryLon, mLimit)
    /\ mPc' = "merged"
    /\ UNCHANGED <<mLocal, mExt, mLimit>>
    /\ UNCHANGED <<sysVars, pureVars, limiterVars>>

MergeNext == CallGetCombinedData

MergeSpec == MergeInit /\ [][MergeNext]_vars

\* getCombinedData is not exercised alone.
MergeAtRest ==
    mLocal = <<>> /\ mExt = <<>> /\ mLimit = 1 /\ mOut = <<>>
    /\ mPc = "unused"

\* ------------------------------------------- calculateDistance alone
\* Latitudes and longitudes the distance is measured between.
DistanceCoordinates == {0, 900, 1800, 2700}

DistanceInit ==
    /\ fIn \in [lat1 : DistanceCoordinates, lon1 : DistanceCoordinates,
                lat2 : DistanceCoordinates, lon2 : DistanceCoordinates]
    /\ fOut = <<>>
    /\ fPc = "input"
    /\ SystemAtRest
    /\ MergeAtRest
    /\ LimiterAtRest

Measure ==
    /\ fPc = "input"
    /\ fOut' = calculateDistance(fIn.lat1, fIn.lon1, fIn.lat2, fIn.lon2)
    /\ fPc' = "applied"
    /\ UNCHANGED fIn
    /\ UNCHANGED <<sysVars, mergeVars, limiterVars>>

DistanceNext == Measure

DistanceSpec == DistanceInit /\ [][DistanceNext]_vars

\* ------------------------------------------------------------ validation
\* A JavaScript value handed to the schema: the number `whole`, the number
\* `whole` + 0.5, undefined, or NaN.
Num(w) == [kind |-> "number", whole |-> w, half |-> FALSE]

NumAndHalf(w) == [kind |-> "number", whole |-> w, half |-> TRUE]

Undefined == [kind |-> "undefined", whole |-> 0, half |-> FALSE]

NotANumber == [kind |-> "NaN", whole |-> 0, half |-> FALSE]

\* v >= lo && v <= hi (false for undefined and for NaN)
Between(v, lo, hi) ==
    /\ v.kind = "number"
    /\ v.whole >= lo
    /\ (v.whole < hi \/ (v.whole = hi /\ ~v.half))

\* .int()
IsInt(v) == v.kind = "number" /\ ~v.half

\* The latitude checked against the longitude's range.
LatOkAsLon(v) == Between(v, 0 - Deg180, Deg180)

\* lat: z.number().min(-90).max(90)
LatOk(v) == Between(v, 0 - Deg90, Deg90)

\* lon: z.number().min(-180).max(180)
LonOk(v) == Between(v, 0 - Deg180, Deg180)

\* The radius checked against the range of OverpassService.isValidCoordinate.
RadiusOkWide(v) ==
    v.kind = "undefined" \/ (IsInt(v) /\ Between(v, 1, 10000))

\* radius: z.number().int().min(100).max(5000).default(1000)
RadiusOk(v) ==
    v.kind = "undefined" \/ (IsInt(v) /\ Between(v, 100, 5000))

\* page: z.number().int().min(1).default(1)
PageOk(v) == v.kind = "undefined" \/ (IsInt(v) /\ v.whole >= 1)

\* limit: z.number().int().min(1).max(100).default(10)
LimitOk(v) == v.kind = "undefined" \/ (IsInt(v) /\ Between(v, 1, 100))

\* cache: z.boolean().default(false); the value is "true", "false",
\* "undefined" or "other" (anything that is no boolean).
CacheOk(c) == c \in {"true", "false", "undefined"}

\* .default(d)
WithDefault(v, d) == IF v.kind = "undefined" THEN Num(d) ELSE v

\* PlaceQuerySchema.safeParse: the issues name the fields that failed.
PlaceQuerySchema(input) ==
    LET issues ==
            {f \in {"lat"} : ~LatOk(input.lat)}
            \cup {f \in {"lon"} : ~LonOk(input.lon)}
            \cup {f \in {"radius"} : ~RadiusOk(input.radius)}
            \cup {f \in {"page"} : ~PageOk(input.page)}
            \cup {f \in {"limit"} : ~LimitOk(input.limit)}
            \cup {f \in {"cache"} : ~CacheOk(input.cache)}
    IN  [success |-> issues = {},
         issues |-> issues,
         data |-> [lat |-> input.lat,
                   lon |-> input.lon,
                   radius |-> WithDefault(input.radius, 1000),
                   page |-> WithDefault(input.page, 1),
                   limit |-> WithDefault(input.limit, 10),
                   cache |-> input.cache = "true"]]

validateCoordinates(lat, lon) ==
    Between(lat, 0 - Deg90, Deg90) /\ Between(lon, 0 - Deg180, Deg180)

validateRadius(radius) == Between(radius, 100, 5000)

\* The values the schema is exercised with, field by field.
LatValues ==
    {Undefined, NotANumber, Num(0 - Deg90 - 1), Num(0 - Deg90), Num(Deg90),
     NumAndHalf(Deg90)}

LonValues == {Undefined, Num(0 - Deg180), Num(Deg180), Num(Deg180 + 1)}

RadiusValues ==
    {Undefined, Num(99), Num(100), NumAndHalf(100), Num(5000), Num(5001)}

PageValues == {Undefined, Num(0), Num(1), NumAndHalf(1)}

LimitValues == {Undefined, Num(0), Num(1), Num(100), Num(101)}

CacheValues == {"undefined", "true", "false"}

SchemaInputs ==
    [lat : LatValues, lon : LonValues, radius : RadiusValues,
     page : PageValues, limit : LimitValues, cache : CacheValues]

ValidationInit ==
    /\ fIn \in SchemaInputs
    /\ fOut = <<>>
    /\ fPc = "input"
    /\ SystemAtRest
    /\ MergeAtRest
    /\ LimiterAtRest

\* The schema and the two helper functions applied to the same values.
Validate ==
    /\ fPc = "input"
    /\ fOut' = [parsed |-> PlaceQuerySchema(fIn),
                coordinates |-> validateCoordinates(fIn.lat, fIn.lon),
                radius |-> validateRadius(fIn.radius)]
    /\ fPc' = "applied"
    /\ UNCHANGED fIn
    /\ UNCHANGED <<sysVars, mergeVars, limiterVars>>

ValidationNext == Validate

ValidationSpec == ValidationInit /\ [][ValidationNext]_vars

\* ------------------------------------------------------ the request path
\* One request is handled at a time.
Slots == {1}

\* The point the requests ask about: 0.001 N, 0.001 E.
PointLat == 10000
PointLon == 10000

\* Validated queries (PlaceQuerySchema has accepted them).
Queries ==
    [lat : {PointLat}, lon : {PointLon}, radius : {100},
     page : {1}, limit : 1..MaxQueryLimit, cache : BOOLEAN]

SeedCafe == [id |-> 1, name |-> "Cafe", coordinates |-> <<10000, 10000>>,
             source |-> "mongodb", updatedAt |-> 0]

SeedBar == [id |-> 2, name |-> "Bar", coordinates |-> <<10500, 10000>>,
            source |-> "mongodb", updatedAt |-> 0]

\* An overpass record written back more than 24 hours ago.
SeedPub == [id |-> 3, name |-> "Pub", coordinates |-> <<11000, 10000>>,
            source |-> "overpass", updatedAt |-> 0 - CACHE_DURATION]

\* An overpass record written back as the server starts.
SeedInn == [id |-> 4, name |-> "Inn", coordinates |-> <<10000, 10800>>,
            source |-> "overpass", updatedAt |-> 0]

\* What the collection holds when the server starts.
InitialStores ==
    {{}, {SeedCafe}, {SeedCafe, SeedBar}, {SeedPub}, {SeedInn}}

\* Elements of Overpass answers.  ElCafe lies 0.00005 degree east of
\* SeedCafe; ElBench carries an excluded tag value.
ElCafe == [name |-> "Cafe", tag |-> "cafe", lat |-> 10000, lon |-> 10500,
           center |-> NoCenter]

ElMuseum == [name |-> "Museum", tag |-> "museum", lat |-> 10000,
             lon |-> 11000, center |-> NoCenter]

ElBench == [name |-> "Bench", tag |-> "bench", lat |-> 10000, lon |-> 10200,
            center |-> NoCenter]

\* The answers the Overpass API may give.
OverpassAnswers == {<<ElBench>>, <<ElMuseum, ElCafe>>}

\* The step of the model clock.
TickMs == 40 * 1000

IdleRequest ==
    [pc |-> "idle", ctl |-> "none", raw |-> <<>>, query |-> <<>>,
     local |-> "unasked",
     mongoData |-> <<>>, places |-> <<>>, hit |-> FALSE,
     external |-> FALSE, net |-> "unasked", overpassData |-> <<>>,
     status |-> 0, body |-> <<>>]

Init ==
    /\ now = 0
    /\ ticks = 0
    /\ cache = <<>>
    /\ store \in InitialStores
    /\ req = [r \in Slots |-> IdleRequest]
    /\ arrivals = 0
    /\ mLocal = <<>> /\ mExt = <<>> /\ mLimit = 1 /\ mOut = <<>>
    /\ mPc = "unused"
    /\ PureAtRest
    /\ LimiterAtRest

\* The JSON body {page, limit, results, total}.
PageBody(query, results) ==
    [page |-> query.page, limit |-> query.limit, results |-> results,
     total |-> Len(results)]

\* What the controller answers from a cache hit: the Elysia controller
\* wraps the cached page, the Express controller sends the cached array
\* itself (res.json(this.cache.get(cacheKey))).
HitBody(ctl, query, cachedData) ==
    IF ctl = "elysia" THEN PageBody(query, cachedData)
    ELSE [array |-> cachedData]

\* The status of a request whose controller caught an error: the Elysia
\* controller rethrows into the route's catch block, which answers 400;
\* the Express controller answers 500 itself.
ErrorStatus(ctl) == IF ctl = "elysia" THEN 400 ELSE 500

ErrorBody(ctl) ==
    IF ctl = "elysia"
    THEN [error |-> "Validation Error", message |-> "Failed to fetch places"]
    ELSE [error |-> "Internal Server Error"]

CombinedData(ctl, mongoData, overpassData, query) ==
    IF ctl = "elysia"
    THEN getCombinedData(mongoData, overpassData, query.lat, query.lon,
                         query.limit)
    ELSE IF ctl = "express"
    THEN ExpressGetCombinedData(mongoData, overpassData, query.lat,
                                query.lon, query.limit)
    ELSE InlineGetCombinedData(mongoData, overpassData, query.lat,
                               query.lon, query.limit)

\* What follows the `if (mongoData.length < limit)` block: the two
\* controllers answer with the local page; the inline handler has no
\* statement there and returns without answering (status 0, no body).
LocalPageStatus(ctl) == IF ctl = "inline" THEN 0 ELSE 200

LocalPageBody(ctl, query, mongoData) ==
    IF ctl = "inline" THEN [unanswered |-> TRUE]
    ELSE PageBody(query, mongoData)

KeyOf(query) ==
    generateCacheKey(query.lat, query.lon, query.radius, query.page,
                     query.limit)

\* The cache check of getPlaces with the lookup commented out.
UseCachedNever(c, key, t, useCache) == FALSE

\* this.cache.has(cacheKey) && useCache
UseCached(c, key, t, useCache) == CacheHas(c, key, t) /\ useCache

\* The test for a short page comparing with <= instead of <.
NeedsOverpassAtLimit(mongoData, limit) == Len(mongoData) <= limit

\* mongoData.length < limit
NeedsOverpass(mongoData, limit) == Len(mongoData) < limit

\* getPlaces up to its first await: the cache key, the cache probe and,
\* on a hit, the answer.  cache.has runs before useCache is looked at.
\* `fresh` is the record of the request as it enters the controller.
GetPlacesFrom(r, query, ctl, fresh) ==
    /\ req[r].pc \in {"idle", "done"}
    /\ arrivals < MaxArrivals
    /\ arrivals' = arrivals + 1
    /\ LET key == KeyOf(query)
           options == CacheOptions(ctl)
           probed == CacheAfterHas(cache, key, now, options)
       IN  IF UseCached(cache, key, now, query.cache)
           THEN /\ cache' = CacheAfterGet(probed, key, now, options)
                /\ req' = [req EXCEPT ![r] =
                       [fresh EXCEPT
                           !.pc = "done", !.ctl = ctl, !.query = query,
                           !.hit = TRUE, !.status = 200,
                           !.body = HitBody(ctl, query, probed[key].value)]]
           ELSE /\ cache' = probed
                /\ req' = [req EXCEPT ![r] =
                       [fresh EXCEPT
                           !.pc = "mongo", !.ctl = ctl, !.query = query,
                           !.local = "asked"]]
    /\ UNCHANGED <<now, ticks, store>>
    /\ UNCHANGED <<mergeVars, pureVars, limiterVars>>

\* getPlaces called with a validated query.
GetPlaces(r, query, ctl) == GetPlacesFrom(r, query, ctl, IdleRequest)

\* The controller's catch block.
Fail(r) ==
    [req EXCEPT ![r].pc = "done", ![r].status = ErrorStatus(req[r].ctl),
                ![r].body = ErrorBody(req[r].ctl)]

\* The aggregate of getMongoDBData rejected.
FailLocal(r) == [Fail(r) EXCEPT ![r].local = "failed"]

\* getMongoDBData resolves; with a full page the request is answered from
\* it, otherwise getCombinedData calls OverpassService.queryPlaces, which
\* checks its arguments and awaits getFromMongoDB.
MongoReturns(r) ==
    /\ req[r].pc = "mongo"
    /\ LET q == req[r].query
       IN  \E mongoData \in getMongoDBData(store, q.lat, q.lon, q.radius,
                                            q.page, q.limit) :
              IF NeedsOverpass(mongoData, q.limit)
              THEN req' = [req EXCEPT
                       ![r].mongoData = mongoData,
                       ![r].local = "returned",
                       ![r].external = TRUE,
                       ![r].pc = IF isValidCoordinate(q.lat, q.lon, q.radius)
                                 THEN "lookup" ELSE "fallback"]
              ELSE req' = [req EXCEPT
                       ![r].mongoData = mongoData,
                       ![r].local = "returned",
                       ![r].pc = "done",
                       ![r].status = LocalPageStatus(req[r].ctl),
                       ![r].body = LocalPageBody(req[r].ctl, q, mongoData)]
    /\ UNCHANGED <<now, ticks, cache, store, arrivals>>
    /\ UNCHANGED <<mergeVars, pureVars, limiterVars>>

\* The aggregate rejects (the database is unreachable).
MongoFails(r) ==
    /\ req[r].pc = "mongo"
    /\ req' = FailLocal(r)
    /\ UNCHANGED <<now, ticks, cache, store, arrivals>>
    /\ UNCHANGED <<mergeVars, pureVars, limiterVars>>

\* queryPlaces called on its own returns overpassData to its caller.
ServiceReturns(r, overpassData, net) ==
    /\ req' = [req EXCEPT ![r].pc = "done", ![r].status = 200,
                          ![r].places = <<>>,
                          ![r].net = net,
                          ![r].overpassData = overpassData,
                          ![r].body = [records |-> overpassData]]
    /\ UNCHANGED cache

\* The merge storing its page whether or not the request asked for it.
MergedCachingAlways(r, overpassData, net) ==
    LET q == req[r].query
    IN  IF req[r].ctl = "service" THEN ServiceReturns(r, overpassData, net)
        ELSE
        \E combinedData \in {CombinedData(req[r].ctl, req[r].mongoData,
                                          overpassData, q)} :
        /\ cache' = CacheAfterSet(cache, KeyOf(q), combinedData, now)
        /\ req' = [req EXCEPT ![r].pc = "done", ![r].status = 200,
                              ![r].places = <<>>,
                              ![r].net = net,
                              ![r].overpassData = overpassData,
                              ![r].body = PageBody(q, combinedData)]

\* queryPlaces has returned overpassData, the network having been asked or
\* not (net): the rest of getCombinedData, the cache write and the answer.
Merged(r, overpassData, net) ==
    LET q == req[r].query
    IN  IF req[r].ctl = "service" THEN ServiceReturns(r, overpassData, net)
        ELSE
        \E combinedData \in {CombinedData(req[r].ctl, req[r].mongoData,
                                          overpassData, q)} :
        /\ cache' = IF q.cache
                    THEN CacheAfterSet(cache, KeyOf(q), combinedData, now)
                    ELSE cache
        /\ req' = [req EXCEPT ![r].pc = "done", ![r].status = 200,
                              ![r].places = <<>>,
                              ![r].net = net,
                              ![r].overpassData = overpassData,
                              ![r].body = PageBody(q, combinedData)]

\* queryPlaces: getFromMongoDB resolves; fresh records are returned as they
\* are, otherwise the request to the Overpass API goes out.
LookupReturns(r) ==
    /\ req[r].pc = "lookup"
    /\ LET q == req[r].query
       IN  \E cachedData \in getFromMongoDB(store, q.lat, q.lon, q.radius) :
              IF isCacheValid(cachedData, now)
              THEN Merged(r, cachedData, "unasked")
              ELSE /\ req' = [req EXCEPT ![r].pc = "network",
                                         ![r].net = "asked"]
                   /\ UNCHANGED cache
    /\ UNCHANGED <<now, ticks, store, arrivals>>
    /\ UNCHANGED <<mergeVars, pureVars, limiterVars>>

\* queryPlaces: the Overpass API answers; the places are parsed and, when
\* there are any, storeInMongoDB is awaited.
NetworkAnswers(r, elements) ==
    /\ req[r].pc = "network"
    /\ \E places \in {parseResponse(elements, now)} :
           IF Len(places) > 0
           THEN /\ req' = [req EXCEPT ![r].pc = "write",
                                      ![r].net = "answered",
                                      ![r].places = places]
                /\ UNCHANGED cache
           ELSE Merged(r, places, "answered")
    /\ UNCHANGED <<now, ticks, store, arrivals>>
    /\ UNCHANGED <<mergeVars, pureVars, limiterVars>>

\* queryPlaces: the Overpass API answers with a body that has no
\* `elements`; parseResponse returns [] and queryPlaces returns it.
NetworkAnswersWithoutElements(r) ==
    /\ req[r].pc = "network"
    /\ Merged(r, <<>>, "malformed")
    /\ UNCHANGED <<now, ticks, store, arrivals>>
    /\ UNCHANGED <<mergeVars, pureVars, limiterVars>>

\* queryPlaces: the request to the Overpass API fails or times out; the
\* catch block awaits getFromMongoDB.
NetworkFails(r) ==
    /\ req[r].pc = "network"
    /\ req' = [req EXCEPT ![r].pc = "fallback", ![r].net = "failed"]
    /\ UNCHANGED <<now, ticks, cache, store, arrivals>>
    /\ UNCHANGED <<mergeVars, pureVars, limiterVars>>

\* queryPlaces with a storeInMongoDB that lets its error out: a failed
\* write lands in the catch block of queryPlaces.
WriteReturnsThrowing(r, written) ==
    /\ req[r].pc = "write"
    /\ IF written
       THEN /\ store' = storeInMongoDB(store, req[r].places, now)
            /\ Merged(r, req[r].places, "answered")
       ELSE /\ store' = store
            /\ req' = [req EXCEPT ![r].pc = "fallback"]
            /\ UNCHANGED cache
    /\ UNCHANGED <<now, ticks, arrivals>>
    /\ UNCHANGED <<mergeVars, pureVars, limiterVars>>

\* queryPlaces: storeInMongoDB resolves, having written or having logged
\* its error; the parsed places are returned either way.
WriteReturns(r, written) ==
    /\ req[r].pc = "write"
    /\ store' = IF written THEN storeInMongoDB(store, req[r].places, now)
                ELSE store
    /\ Merged(r, req[r].places, "answered")
    /\ UNCHANGED <<now, ticks, arrivals>>
    /\ UNCHANGED <<mergeVars, pureVars, limiterVars>>

\* queryPlaces, catch block: getFromMongoDB resolves; its records are
\* returned when there are any, otherwise the error goes up to getPlaces.
FallbackReturns(r) ==
    /\ req[r].pc = "fallback"
    /\ LET q == req[r].query
       IN  \E cachedData \in getFromMongoDB(store, q.lat, q.lon, q.radius) :
              IF Len(cachedData) > 0
              THEN Merged(r, cachedData, req[r].net)
              ELSE /\ req' = Fail(r)
                   /\ UNCHANGED cache
    /\ UNCHANGED <<now, ticks, store, arrivals>>
    /\ UNCHANGED <<mergeVars, pureVars, limiterVars>>

\* Time passes.
Tick ==
    /\ ticks < MaxTicks
    /\ ticks' = ticks + 1
    /\ now' = now + TickMs
    /\ UNCHANGED <<cache, store, req, arrivals>>
    /\ UNCHANGED <<mergeVars, pureVars, limiterVars>>

Steps ==
    \/ \E r \in Slots : MongoReturns(r)
    \/ \E r \in Slots : MongoFails(r)
    \/ \E r \in Slots : LookupReturns(r)
    \/ \E r \in Slots : \E elements \in OverpassAnswers :
          NetworkAnswers(r, elements)
    \/ \E r \in Slots : NetworkAnswersWithoutElements(r)
    \/ \E r \in Slots : NetworkFails(r)
    \/ \E r \in Slots : \E written \in BOOLEAN : WriteReturns(r, written)
    \/ \E r \in Slots : FallbackReturns(r)
    \/ Tick

\* The Elysia application.
Next ==
    \/ \E r \in Slots : \E query \in Queries : GetPlaces(r, query, "elysia")
    \/ Steps

Spec == Init /\ [][Next]_vars

\* parseFloat of a query-string parameter; an absent one gives NaN.
ParseFloat(v) == IF v.kind = "undefined" THEN NotANumber ELSE v

\* parseInt of a query-string parameter: the fraction is cut off.
ParseInt(v) ==
    IF v.kind = "number"
    THEN Num(IF v.half /\ v.whole < 0 THEN v.whole + 1 ELSE v.whole)
    ELSE NotANumber

\* query.x ? parseInt(query.x) : d
ParseIntOr(v, d) == IF v.kind = "undefined" THEN Num(d) ELSE ParseInt(v)

\* The object the /places route hands to PlaceQuerySchema.parse.
RouteParse(rawQuery) ==
    [lat |-> ParseFloat(rawQuery.lat),
     lon |-> ParseFloat(rawQuery.lon),
     radius |-> ParseIntOr(rawQuery.radius, 1000),
     page |-> ParseIntOr(rawQuery.page, 1),
     limit |-> ParseIntOr(rawQuery.limit, 10),
     cache |-> IF rawQuery.cache = "true" THEN "true" ELSE "false"]

\* The validated query as the controller reads it.
ToQuery(data) ==
    [lat |-> data.lat.whole, lon |-> data.lon.whole,
     radius |-> data.radius.whole, page |-> data.page.whole,
     limit |-> data.limit.whole, cache |-> data.cache]

\* The query strings that arrive: latitude 91 or absent, radius 50.
RawQueries ==
    [lat : {Num(PointLat), Num(Deg90 + 10000000), Undefined},
     lon : {Num(PointLon)},
     radius : {Num(100), Num(50)},
     page : {Num(1)},
     limit : {Num(l) : l \in 1..MaxQueryLimit},
     cache : {"true", "undefined"}]

\* The handler of GET /places: PlaceQuerySchema.parse throws into the
\* catch block, which answers 400 with the issues; otherwise the
\* controller is called.
PlacesRoute(r, rawQuery) ==
    LET result == PlaceQuerySchema(RouteParse(rawQuery))
        fresh == [IdleRequest EXCEPT !.raw = rawQuery]
    IN  IF result.success
        THEN GetPlacesFrom(r, ToQuery(result.data), "elysia", fresh)
        ELSE /\ req[r].pc \in {"idle", "done"}
             /\ arrivals < MaxArrivals
             /\ arrivals' = arrivals + 1
             /\ req' = [req EXCEPT ![r] =
                    [fresh EXCEPT
                        !.pc = "done", !.ctl = "elysia", !.status = 400,
                        !.body = [error |-> "Validation Error",
                                  details |-> result.issues]]]
             /\ UNCHANGED <<now, ticks, cache, store>>
             /\ UNCHANGED <<mergeVars, pureVars, limiterVars>>

\* A promise the request of slot r awaits settles.
Settles(r) ==
    \/ MongoReturns(r)
    \/ MongoFails(r)
    \/ LookupReturns(r)
    \/ \E elements \in OverpassAnswers : NetworkAnswers(r, elements)
    \/ NetworkAnswersWithoutElements(r)
    \/ NetworkFails(r)
    \/ \E written \in BOOLEAN : WriteReturns(r, written)
    \/ FallbackReturns(r)

\* The Elysia application behind its /places route.  The route does not
\* read the clock, which stands still here.
RouteNext ==
    \/ \E r \in Slots : \E rawQuery \in RawQueries : PlacesRoute(r, rawQuery)
    \/ \E r \in Slots : Settles(r)

RouteSpec == Init /\ [][RouteNext]_vars

\* The Express application.
ExpressNext ==
    \/ \E r \in Slots : \E query \in Queries : GetPlaces(r, query, "express")
    \/ Steps

ExpressSpec == Init /\ [][ExpressNext]_vars

\* ------------------------------------------ two requests at the same time
ConcSlots == {1, 2}

\* The query both requests carry.
ConcQuery ==
    [lat |-> PointLat, lon |-> PointLon, radius |-> 100, page |-> 1,
     limit |-> 2, cache |-> TRUE]

ConcInit ==
    /\ now = 0
    /\ ticks = 0
    /\ cache = <<>>
    /\ store \in {{}, {SeedCafe}, {SeedPub}}
    /\ req = [r \in ConcSlots |-> IdleRequest]
    /\ arrivals = 0
    /\ MergeAtRest
    /\ PureAtRest
    /\ LimiterAtRest

\* The request of slot r arrives; each slot serves one request.
ConcArrives(r) == req[r].pc = "idle" /\ GetPlaces(r, ConcQuery, "elysia")

ConcNext ==
    \/ \E r \in ConcSlots : ConcArrives(r)
    \/ \E r \in ConcSlots : Settles(r)

\* Every awaited promise settles: the store driver and the HTTP client
\* answer or time out.
ConcSpec ==
    /\ ConcInit
    /\ [][ConcNext]_vars
    /\ \A r \in ConcSlots : WF_vars(Settles(r))

\* ------------------------------------------------ generateCacheKey alone
\* Queries around the zero of both axes and a millionth of a degree away,
\* with two values for each of radius, page and limit.
KeyQueries ==
    [lat : {0 - 6, 0 - 1, 0, 4, 5, 10}, lon : {0 - 1, 0, 10},
     radius : {100, 200}, page : {1, 2}, limit : {1, 2}]

KeyInit ==
    /\ fIn \in [a : KeyQueries, b : KeyQueries]
    /\ fOut = <<>>
    /\ fPc = "input"
    /\ SystemAtRest
    /\ MergeAtRest
    /\ LimiterAtRest

\* The keys of the two queries.
GenerateKeys ==
    /\ fPc = "input"
    /\ fOut' = [a |-> generateCacheKey(fIn.a.lat, fIn.a.lon, fIn.a.radius,
                                       fIn.a.page, fIn.a.limit),
                b |-> generateCacheKey(fIn.b.lat, fIn.b.lon, fIn.b.radius,
                                       fIn.b.page, fIn.b.limit)]
    /\ fPc' = "applied"
    /\ UNCHANGED fIn
    /\ UNCHANGED <<sysVars, mergeVars, limiterVars>>

KeyNext == GenerateKeys

KeySpec == KeyInit /\ [][KeyNext]_vars

\* --------------------------------------------------- parseResponse alone
\* The elements an Overpass answer is drawn from: named or not, with a
\* plain or an excluded tag value, with or without coordinates of their
\* own, with or without a center.
ParseElements ==
    [name : {"", "Cafe"}, tag : {"cafe", "bench"},
     lat : {0, 10000}, lon : {0, 10500},
     center : {NoCenter, [lat |-> 10100, lon |-> 10600]}]

\* Answers of up to MaxElements elements.
ParseAnswers ==
    UNION {[1..n -> ParseElements] : n \in 0..MaxElements}

ParseInit ==
    /\ fIn \in ParseAnswers
    /\ fOut = <<>>
    /\ fPc = "input"
    /\ SystemAtRest
    /\ MergeAtRest
    /\ LimiterAtRest

Parse ==
    /\ fPc = "input"
    /\ fOut' = parseResponse(fIn, now)
    /\ fPc' = "applied"
    /\ UNCHANGED fIn
    /\ UNCHANGED <<sysVars, mergeVars, limiterVars>>

ParseNext == Parse

ParseSpec == ParseInit /\ [][ParseNext]_vars

\* ------------------------------------------------- queryPlaces on its own
\* An element at the very place of SeedBar.
ElBar == [name |-> "Bar", tag |-> "bar", lat |-> 10000, lon |-> 10500,
          center |-> NoCenter]

ServiceAnswers == OverpassAnswers \cup {<<ElBar>>}

\* The arguments queryPlaces is called with: in range, each one out of
\* range in turn, and the radius 0.
ServiceCalls ==
    {[lat |-> PointLat, lon |-> PointLon, radius |-> 100],
     [lat |-> Deg90 + 10000000, lon |-> PointLon, radius |-> 100],
     [lat |-> PointLat, lon |-> 0 - Deg180 - 10000000, radius |-> 100],
     [lat |-> PointLat, lon |-> PointLon, radius |-> 20000],
     [lat |-> PointLat, lon |-> PointLon, radius |-> 0]}

ServiceSlots == {1, 2}

ServiceInit ==
    /\ now = 0
    /\ ticks = 0
    /\ cache = <<>>
    /\ store \in InitialStores
    /\ req = [r \in ServiceSlots |-> IdleRequest]
    /\ arrivals = 0
    /\ MergeAtRest
    /\ PureAtRest
    /\ LimiterAtRest

\* queryPlaces up to its first await: invalid arguments throw into the
\* catch block, valid ones await getFromMongoDB.
QueryPlaces(r, lat, lon, radius) ==
    /\ req[r].pc = "idle"
    /\ req' = [req EXCEPT ![r] =
           [IdleRequest EXCEPT
               !.ctl = "service",
               !.query = [lat |-> lat, lon |-> lon, radius |-> radius,
                          page |-> 1, limit |-> 1, cache |-> FALSE],
               !.external = TRUE,
               !.pc = IF isValidCoordinate(lat, lon, radius)
                      THEN "lookup" ELSE "fallback"]]
    /\ UNCHANGED <<now, ticks, cache, store, arrivals>>
    /\ UNCHANGED <<mergeVars, pureVars, limiterVars>>

\* The first call, and a second call with the same arguments once the
\* first has returned or thrown.
ServiceCall ==
    \/ \E call \in ServiceCalls :
          QueryPlaces(1, call.lat, call.lon, call.radius)
    \/ /\ req[1].pc = "done"
       /\ QueryPlaces(2, req[1].query.lat, req[1].query.lon,
                       req[1].query.radius)

\* A promise queryPlaces awaits settles.
ServiceSettles(r) ==
    \/ LookupReturns(r)
    \/ \E elements \in ServiceAnswers : NetworkAnswers(r, elements)
    \/ NetworkAnswersWithoutElements(r)
    \/ NetworkFails(r)
    \/ \E written \in BOOLEAN : WriteReturns(r, written)
    \/ FallbackReturns(r)

ServiceNext ==
    \/ ServiceCall
    \/ \E r \in ServiceSlots : ServiceSettles(r)
    \/ Tick

ServiceSpec == ServiceInit /\ [][ServiceNext]_vars

\* ------------------------------------------------- the rate limiter
API_RATE_LIMIT == 100

RATE_LIMIT_WINDOW == 60 * 1000

\* The clock advances between two requests by half a window.
LimiterStepMs == 30 * 1000

MaxLimiterTicks == 3      \* how often the clock advances at the limiter
MaxLimiterRequests == 103 \* how many requests reach the limiter

\* The headers and the path of a request; "" is an absent header.
LimiterRequests ==
    {[forwardedFor |-> "10.0.0.1", realIp |-> "", pathname |-> "/places"],
     [forwardedFor |-> "", realIp |-> "10.0.0.1", pathname |-> "/places"],
     [forwardedFor |-> "", realIp |-> "", pathname |-> "/places"]}

\* request.headers.get('x-forwarded-for') || get('x-real-ip') || 'unknown'
clientIp(request) ==
    IF request.forwardedFor # "" THEN request.forwardedFor
    ELSE IF request.realIp # "" THEN request.realIp
    ELSE "unknown"

\* `${clientIp}:${pathname}`
LimiterKey(request) == <<clientIp(request), request.pathname>>

\* Math.ceil(ms / 1000) for ms >= 0.
CeilSeconds(ms) == (ms + 999) \div 1000

\* The middleware let the request through to the route handler.
Passed(key) == [key |-> key, status |-> 200, retryAfter |-> 0,
                handled |-> TRUE]

\* The middleware answered the request itself.
TooManyRequests(key, retryAfter) ==
    [key |-> key, status |-> 429, retryAfter |-> retryAfter,
     handled |-> FALSE]

\* The window of the record is over at the instant `t`.
WindowEnded(record, t) == t > record.resetTime

\* The middleware rateLimit(limit, windowMs) on one request.
rateLimit(limit, windowMs, request) ==
    LET key == LimiterKey(request)
    IN  IF key \notin DOMAIN rateLimitStore
           \/ WindowEnded(rateLimitStore[key], now)
        THEN /\ rateLimitStore' =
                    [k \in DOMAIN rateLimitStore \cup {key} |->
                        IF k = key
                        THEN [count |-> 1, resetTime |-> now + windowMs]
                        ELSE rateLimitStore[k]]
             /\ gate' = Passed(key)
        ELSE IF rateLimitStore[key].count >= limit
        THEN /\ gate' = TooManyRequests(key,
                    CeilSeconds(rateLimitStore[key].resetTime - now))
             /\ UNCHANGED rateLimitStore
        ELSE /\ rateLimitStore' =
                    [rateLimitStore EXCEPT ![key].count = @ + 1]
             /\ gate' = Passed(key)

\* app.onBeforeHandle(rateLimit(API_RATE_LIMIT, RATE_LIMIT_WINDOW))
LimiterRequest ==
    /\ arrivals < MaxLimiterRequests
    /\ arrivals' = arrivals + 1
    /\ \E request \in LimiterRequests :
          rateLimit(API_RATE_LIMIT, RATE_LIMIT_WINDOW, request)
    /\ UNCHANGED <<now, ticks, cache, store, req>>
    /\ UNCHANGED <<mergeVars, pureVars>>

LimiterTick ==
    /\ ticks < MaxLimiterTicks
    /\ ticks' = ticks + 1
    /\ now' = now + LimiterStepMs
    /\ UNCHANGED <<cache, store, req, arrivals>>
    /\ UNCHANGED <<mergeVars, pureVars, limiterVars>>

LimiterInit ==
    /\ SystemAtRest
    /\ MergeAtRest
    /\ PureAtRest
    /\ LimiterAtRest

LimiterNext == LimiterRequest \/ LimiterTick

LimiterSpec == LimiterInit /\ [][LimiterNext]_vars

\* ----------------------------------------------- two pages of one query
PageSlots == {1, 2}

\* The queries of the first page; the second asks for page 2 of the same.
PageQueries ==
    [lat : {PointLat}, lon : {PointLon}, radius : {100},
     page : {1}, limit : 1..MaxQueryLimit, cache : BOOLEAN]

PageInit ==
    /\ now = 0
    /\ ticks = 0
    /\ cache = <<>>
    /\ store \in InitialStores
    /\ req = [r \in PageSlots |-> IdleRequest]
    /\ arrivals = 0
    /\ MergeAtRest
    /\ PureAtRest
    /\ LimiterAtRest

\* Slot 1 asks for page 1; slot 2 asks for page 2 of what slot 1 asked.
PageArrives ==
    \/ /\ req[1].pc = "idle"
       /\ \E query \in PageQueries : GetPlaces(1, query, "elysia")
    \/ /\ req[1].pc # "idle"
       /\ req[2].pc = "idle"
       /\ GetPlaces(2, [req[1].query EXCEPT !.page = 2], "elysia")

PageNext == PageArrives \/ \E r \in PageSlots : Settles(r)

PageSpec == PageInit /\ [][PageNext]_vars

\* The application with the inline /places handler.
InlineNext ==
    \/ \E r \in Slots : \E query \in Queries : GetPlaces(r, query, "inline")
    \/ Steps

InlineSpec == Init /\ [][InlineNext]_vars

\* ------------------------------------------------------ merge properties
\* a <= b on JavaScript numbers: false as soon as one side is NaN
NumLeq(a, b) == a # NaN /\ b # NaN /\ a <= b

\* Two records are duplicates of each other: same name and coordinates
\* less than 0.0001 degree apart on both axes.
Duplicates(a, b) ==
    /\ a.name = b.name
    /\ Len(a.coordinates) = 2 /\ Len(b.coordinates) = 2
    /\ Abs(a.coordinates[1] - b.coordinates[1]) < 1000
    /\ Abs(a.coordinates[2] - b.coordinates[2]) < 1000

\* A record is valid: it has a name and exactly two coordinates, both
\* of them numbers.
ValidRecord(a) ==
    /\ a.name # ""
    /\ Len(a.coordinates) = 2
    /\ a.coordinates[1] # NaN /\ a.coordinates[2] # NaN

\* An external record with the distance the merge computes for it.
Annotated(e) ==
    IF Len(e.coordinates) = 2 /\ e.coordinates[1] # NaN
                              /\ e.coordinates[2] # NaN
    THEN [e EXCEPT !.distance = calculateDistance(QueryLat, QueryLon,
                                    e.coordinates[2], e.coordinates[1])]
    ELSE e

\* The records the merge is given, local first.
MergeInputs == mLocal \o [i \in 1..Len(mExt) |-> Annotated(mExt[i])]

\* Positions of the merge input holding a valid record that duplicates no
\* valid record before it.
FirstOccurrences ==
    {i \in 1..Len(MergeInputs) :
        /\ ValidRecord(MergeInputs[i])
        /\ \A j \in 1..(i - 1) :
              ~(ValidRecord(MergeInputs[j])
                /\ Duplicates(MergeInputs[j], MergeInputs[i]))}

\* C1: the page produced by the merge is sorted ascending by distance: each
\* record's distance is at most the distance of the record after it.
C1_MergeSortedAscending ==
    mPc = "merged" =>
        \A i \in 1..(Len(mOut) - 1) :
            NumLeq(mOut[i].distance, mOut[i + 1].distance)

\* C1 witness: a merge whose nearest record is external and is followed by
\* a farther local record, so the concatenation was not in order.
C1_Witness ==
    /\ mPc = "merged"
    /\ Len(mOut) >= 2
    /\ mOut[1].source = "overpass"
    /\ mOut[2] \in Range(mLocal)
    /\ mOut[1].distance < mOut[2].distance

\* C3: no two records of a merged page are duplicates of each other: their
\* names differ or their coordinates differ by at least 0.0001 degree on
\* at least one axis.
C3_MergeNoDuplicates ==
    mPc = "merged" =>
        \A i, j \in 1..Len(mOut) :
            i < j =>
                \/ mOut[i].name # mOut[j].name
                \/ Abs(mOut[i].coordinates[1] - mOut[j].coordinates[1]) >= 1000
                \/ Abs(mOut[i].coordinates[2] - mOut[j].coordinates[2]) >= 1000

\* C3 witness: the input held two valid records of the same name 0.00005
\* degree apart, and the page still has two records.
C3_Witness ==
    /\ mPc = "merged"
    /\ Len(mOut) >= 2
    /\ \E i, j \in 1..Len(MergeInputs) :
          /\ i < j
          /\ ValidRecord(MergeInputs[i]) /\ ValidRecord(MergeInputs[j])
          /\ Duplicates(MergeInputs[i], MergeInputs[j])
          /\ MergeInputs[i].coordinates # MergeInputs[j].coordinates

\* C4: when a local-store record and an external record are duplicates of
\* each other, the external one is never in the merge output, and the
\* local one is in it when it is the first of its kind and nothing was cut.
C4_LocalWinsOverExternal ==
    mPc = "merged" =>
        \A i \in 1..Len(mLocal) : \A k \in 1..Len(mExt) :
            (/\ ValidRecord(mLocal[i]) /\ ValidRecord(mExt[k])
             /\ Duplicates(mLocal[i], mExt[k]))
            => /\ Annotated(mExt[k]) \notin Range(mOut)
               /\ (i \in FirstOccurrences /\ Len(mOut) < mLimit
                     => mLocal[i] \in Range(mOut))

\* C4 witness: a local record and an external record 0.00005 degree apart
\* with the same name were merged and the local one is in the page.
C4_Witness ==
    /\ mPc = "merged"
    /\ \E i \in 1..Len(mLocal) : \E k \in 1..Len(mExt) :
          /\ ValidRecord(mLocal[i]) /\ ValidRecord(mExt[k])
          /\ Duplicates(mLocal[i], mExt[k])
          /\ mLocal[i].coordinates # mExt[k].coordinates
          /\ mLocal[i] \in Range(mOut)

\* C6: the merge output is the `limit` nearest records of the valid,
\* de-duplicated concatenation: every output record is an input record,
\* the page has min(limit, number of first occurrences) records, and every
\* input record absent from it is invalid, duplicates an earlier record, or
\* is at least as far away as every record of the page.
C6_MergeIsNearestLimit ==
    mPc = "merged" =>
        /\ \A k \in 1..Len(mOut) : mOut[k] \in Range(MergeInputs)
        /\ Len(mOut) = Min(mLimit, Cardinality(FirstOccurrences))
        /\ \A i \in 1..Len(MergeInputs) :
              MergeInputs[i] \notin Range(mOut) =>
                  \/ ~ValidRecord(MergeInputs[i])
                  \/ i \notin FirstOccurrences
                  \/ \A k \in 1..Len(mOut) :
                        NumLeq(mOut[k].distance, MergeInputs[i].distance)

\* C6 witness: the input held an invalid record, a duplicate and more
\* distinct valid records than the limit, so the page was cut.
C6_Witness ==
    /\ mPc = "merged"
    /\ Len(mOut) = mLimit
    /\ Cardinality(FirstOccurrences) > mLimit
    /\ \E i \in 1..Len(MergeInputs) : ~ValidRecord(MergeInputs[i])
    /\ \E i \in 1..Len(MergeInputs) :
          ValidRecord(MergeInputs[i]) /\ i \notin FirstOccurrences


\* ------------------------------------------------------------------
\* Properties of the request path
\* ------------------------------------------------------------------

\* The request in slot r has been answered with status 200.
Answered(r) == req[r].pc = "done" /\ req[r].status = 200

\* The step completes the merge path of the request in slot r.
MergeCompletes(r) ==
    /\ req[r].pc \in {"lookup", "network", "write", "fallback"}
    /\ req'[r].pc = "done"
    /\ req'[r].status = 200

\* The step is the arrival of a request in slot r.
Arrives(r) == arrivals' = arrivals + 1 /\ req'[r].pc # "idle"

\* C2: every successful response carries at most `limit` records, whether
\* it came from the cache, from the local store alone or from the merge.
C2_ResponseAtMostLimit ==
    \A r \in Slots :
        Answered(r) => Len(req[r].body.results) <= req[r].query.limit

\* C2: a cache hit answered with exactly `limit` records while the cache
\* also holds a longer page of the same place under a larger limit.
C2_Witness ==
    \E r \in Slots :
        /\ Answered(r)
        /\ req[r].hit
        /\ Len(req[r].body.results) = req[r].query.limit
        /\ \E k \in DOMAIN cache :
              Len(cache[k].value) > req[r].query.limit

\* C5: on a request that was not answered from the cache and whose local
\* query returned, the external adapter is invoked exactly when the local
\* store returned fewer than `limit` records; a local page of exactly
\* `limit` records is answered unchanged.
C5_ExternalIffShortPage ==
    \A r \in Slots :
        (req[r].local = "returned" /\ ~req[r].hit) =>
            /\ req[r].external <=>
                  (Len(req[r].mongoData) < req[r].query.limit)
            /\ Len(req[r].mongoData) = req[r].query.limit =>
                  /\ Answered(r)
                  /\ req[r].body.results = req[r].mongoData

\* C5: a request answered from a local page of exactly two records, its
\* limit, without the external adapter.
C5_Witness ==
    \E r \in Slots :
        /\ Answered(r)
        /\ req[r].local = "returned"
        /\ ~req[r].hit
        /\ ~req[r].external
        /\ req[r].query.limit = 2
        /\ Len(req[r].mongoData) = 2
        /\ req[r].body.results = req[r].mongoData

\* C7: no step of a request with cache=false reads or changes the cache:
\* the request is never answered from it and every entry keeps its value
\* and the start of its time-to-live.
C7_CacheFalseBypassesCache ==
    [][\A r \in Slots :
          (req'[r] # req[r] /\ req'[r].pc # "idle"
              /\ ~req'[r].query.cache) =>
             (cache' = cache /\ ~req'[r].hit)]_vars

\* C8: a page answered from the cache was written at most CACHE_TTL
\* before the answer.
C8_HitWithinTtlOfWrite ==
    [][\A r \in Slots :
          (Arrives(r) /\ req'[r].hit) =>
             now - cache[KeyOf(req'[r].query)].written <= CACHE_TTL]_vars

\* C9: a merge-path answer to a cache=true request is stored under the
\* request's key; the stored page is kept as it is for CACHE_TTL; and a
\* cache=true request arriving within CACHE_TTL of the write is answered
\* at once with the stored page, the local store and the external adapter
\* not being called.
C9_RepeatWithinTtlIsServedFromCache ==
    [][/\ \A r \in Slots :
             (MergeCompletes(r) /\ req[r].query.cache) =>
                LET key == KeyOf(req[r].query)
                IN  /\ key \in DOMAIN cache'
                    /\ cache'[key].value = req'[r].body.results
                    /\ cache'[key].written = now
       /\ \A k \in DOMAIN cache :
             (now - cache[k].written <= CACHE_TTL
                 /\ ~\E r \in Slots :
                       MergeCompletes(r) /\ KeyOf(req[r].query) = k) =>
                /\ k \in DOMAIN cache'
                /\ cache'[k].value = cache[k].value
                /\ cache'[k].written = cache[k].written
       /\ \A r \in Slots :
             (Arrives(r) /\ req'[r].query.cache
                 /\ KeyOf(req'[r].query) \in DOMAIN cache
                 /\ now - cache[KeyOf(req'[r].query)].written
                       <= CACHE_TTL) =>
                /\ req'[r].pc = "done"
                /\ req'[r].hit
                /\ req'[r].status = 200
                /\ req'[r].local = "unasked"
                /\ ~req'[r].external
                /\ req'[r].body.results
                      = cache[KeyOf(req'[r].query)].value]_vars

\* C9: a request answered from a page that an earlier request merged from
\* external records and stored before the clock advanced.
C9_Witness ==
    \E r \in Slots :
        /\ Answered(r)
        /\ req[r].hit
        /\ req[r].query.cache
        /\ KeyOf(req[r].query) \in DOMAIN cache
        /\ cache[KeyOf(req[r].query)].written < now
        /\ now - cache[KeyOf(req[r].query)].written <= CACHE_TTL
        /\ Len(req[r].body.results) > 0
        /\ req[r].body.results = cache[KeyOf(req[r].query)].value

\* C10: a request answered from the cache gets the body object
\* {page, limit, total, results} that an uncached answer has.
C10_HitBodyIsPageObject ==
    \A r \in Slots :
        (Answered(r) /\ req[r].hit) =>
            /\ DOMAIN req[r].body = {"page", "limit", "total", "results"}
            /\ req[r].body.page = req[r].query.page
            /\ req[r].body.limit = req[r].query.limit
            /\ req[r].body.total = Len(req[r].body.results)


\* ------------------------------------------------------------------
\* Properties of validation
\* ------------------------------------------------------------------

\* v is a whole number.
IsWhole(v) == v.kind = "number" /\ v.half = FALSE

\* v is a number of the closed interval [lo, hi]: its whole part is, and
\* at the upper end nothing is added to it.
InClosedRange(v, lo, hi) ==
    /\ v.kind = "number"
    /\ v.whole \in lo..hi
    /\ v.whole = hi => IsWhole(v)

\* The parameters of a query string that are missing though required, or
\* out of range.
OffendingFields(raw) ==
    {f \in {"lat"} : ~InClosedRange(raw.lat, 0 - 900000000, 900000000)}
    \cup {f \in {"lon"} :
             ~InClosedRange(raw.lon, 0 - 1800000000, 1800000000)}
    \cup {f \in {"radius"} :
             raw.radius.kind # "undefined"
                /\ ~InClosedRange(raw.radius, 100, 5000)}
    \cup {f \in {"page"} :
             raw.page.kind # "undefined"
                /\ ~(raw.page.kind = "number" /\ raw.page.whole >= 1)}
    \cup {f \in {"limit"} :
             raw.limit.kind # "undefined"
                /\ ~InClosedRange(raw.limit, 1, 100)}

C16_SchemaAcceptsExactlyTheRanges ==
    fPc = "applied" =>
        LET accepted ==
                /\ InClosedRange(fIn.lat, 0 - 900000000, 900000000)
                /\ InClosedRange(fIn.lon, 0 - 1800000000, 1800000000)
                /\ \/ fIn.radius.kind = "undefined"
                   \/ IsWhole(fIn.radius)
                        /\ InClosedRange(fIn.radius, 100, 5000)
                /\ \/ fIn.page.kind = "undefined"
                   \/ IsWhole(fIn.page) /\ fIn.page.whole >= 1
                /\ \/ fIn.limit.kind = "undefined"
                   \/ IsWhole(fIn.limit) /\ InClosedRange(fIn.limit, 1, 100)
            data == fOut.parsed.data
        IN  /\ fOut.parsed.success <=> accepted
            /\ fOut.parsed.success =>
                  /\ data.lat = fIn.lat /\ data.lon = fIn.lon
                  /\ data.radius = (IF fIn.radius.kind = "undefined"
                                    THEN Num(1000) ELSE fIn.radius)
                  /\ data.page = (IF fIn.page.kind = "undefined"
                                  THEN Num(1) ELSE fIn.page)
                  /\ data.limit = (IF fIn.limit.kind = "undefined"
                                   THEN Num(10) ELSE fIn.limit)
                  /\ data.cache = (fIn.cache = "true")
            /\ fOut.coordinates <=>
                  /\ InClosedRange(fIn.lat, 0 - 900000000, 900000000)
                  /\ InClosedRange(fIn.lon, 0 - 1800000000, 1800000000)
            /\ fOut.radius <=> InClosedRange(fIn.radius, 100, 5000)

\* C16: a query with only lat and lon accepted with every default filled.
C16_Witness ==
    /\ fPc = "applied"
    /\ fIn.radius = Undefined /\ fIn.page = Undefined
    /\ fIn.limit = Undefined /\ fIn.cache = "undefined"
    /\ fOut.parsed.success
    /\ fOut.parsed.data.radius = Num(1000)
    /\ fOut.parsed.data.page = Num(1)
    /\ fOut.parsed.data.limit = Num(10)
    /\ fOut.parsed.data.cache = FALSE
    /\ fOut.coordinates
    /\ ~fOut.radius


\* C12: a request whose parameters pass validation and which cannot be
\* served because a data source failed is answered with a 5xx status; a
\* 400 answer goes only to requests whose parameters fail validation.
C12_DataSourceFailureIs5xx ==
    \A r \in Slots :
        (req[r].pc = "done" /\ req[r].status # 200) =>
            IF OffendingFields(req[r].raw) = {}
            THEN req[r].status \in 500..599
            ELSE req[r].status = 400


\* C13: a validated /places request whose handler has finished has been
\* answered, with a page or with an error, on every path: cache hit, full
\* local page, merge and data-source failure.
C13_FinishedRequestIsAnswered ==
    \A r \in Slots :
        req[r].pc = "done" =>
            \/ req[r].status = 200
            \/ req[r].status \in 400..599


\* ------------------------------------------------------------------
\* Properties of OverpassService.queryPlaces
\* ------------------------------------------------------------------

\* The overpass-sourced documents the store holds within the radius of
\* the request in slot r.
HeldForArea(r) ==
    {d \in store :
        /\ d.source = "overpass"
        /\ calculateDistance(req[r].query.lat, req[r].query.lon,
                             d.coordinates[2], d.coordinates[1])
              <= req[r].query.radius}

\* The (name, coordinates) pairs of a set or of a sequence of records.
KeysOfSet(docs) ==
    {[name |-> d.name, coordinates |-> d.coordinates] : d \in docs}

KeysOfSeq(places) == KeysOfSet(Range(places))

\* queryPlaces of the request in slot r returned exactly the held records.
ReturnedHeld(r) ==
    /\ Len(req[r].overpassData) = Cardinality(HeldForArea(r))
    /\ KeysOfSeq(req[r].overpassData) = KeysOfSet(HeldForArea(r))
    /\ \A i \in 1..Len(req[r].overpassData) :
          \E d \in HeldForArea(r) :
             /\ d.name = req[r].overpassData[i].name
             /\ d.coordinates = req[r].overpassData[i].coordinates
             /\ d.updatedAt = req[r].overpassData[i].updatedAt

\* C14: when the external request fails (network error, timeout or
\* malformed response), queryPlaces returns the overpass-sourced records
\* the store holds for the area, whatever their age, and the request
\* fails only when there are none.
C14_ExternalFailureFallsBack ==
    \A r \in Slots :
        (req[r].pc = "done" /\ req[r].net \in {"failed", "malformed"}) =>
            IF HeldForArea(r) = {}
            THEN req[r].status # 200
            ELSE req[r].status = 200 /\ ReturnedHeld(r)


\* C15: when the external request succeeds, queryPlaces returns exactly
\* the parsed records whether the write-back succeeds or fails: the
\* request is answered 200 and the call never becomes an error.
C15_WriteBackNeverFailsTheRead ==
    [][\A r \in Slots :
          /\ (req[r].pc = "network" /\ req'[r].pc = "write") =>
                \E elements \in OverpassAnswers :
                   req'[r].places = parseResponse(elements, now)
          /\ (req[r].pc = "write" /\ req'[r] # req[r]) =>
                /\ req'[r].pc = "done"
                /\ req'[r].status = 200
                /\ req'[r].net = "answered"
                /\ req'[r].overpassData = req[r].places]_vars

\* C15: a request answered 200 from parsed records none of which reached
\* the store.
C15_Witness ==
    \E r \in Slots :
        /\ Answered(r)
        /\ req[r].net = "answered"
        /\ Len(req[r].overpassData) > 0
        /\ KeysOfSeq(req[r].overpassData) \cap KeysOfSet(store) = {}


\* ------------------------------------------------------------------
\* Properties of calculateDistance
\* ------------------------------------------------------------------

\* C17: the distance between two points of the same latitude and the same
\* longitude is 0.
C17_CoincidentPointsAtDistanceZero ==
    (fPc = "applied" /\ fIn.lat1 = fIn.lat2 /\ fIn.lon1 = fIn.lon2) =>
        fOut = 0

\* C17: a point away from the diagonal measured against itself.
C17_Witness ==
    /\ fPc = "applied"
    /\ fIn.lat1 = fIn.lat2 /\ fIn.lon1 = fIn.lon2
    /\ fIn.lat1 # fIn.lon1
    /\ fOut = 0


\* ------------------------------------------------------------------
\* Properties of the dedup step
\* ------------------------------------------------------------------

RECURSIVE KeptUpTo(_)
\* Positions 1..n of the merge input that a scan keeps which compares each
\* valid record only with the records it has kept so far.
KeptUpTo(n) ==
    IF n = 0 THEN {}
    ELSE LET before == KeptUpTo(n - 1)
         IN  IF /\ ValidRecord(MergeInputs[n])
                /\ \A j \in before :
                      ~Duplicates(MergeInputs[j], MergeInputs[n])
             THEN before \cup {n}
             ELSE before

\* C18: the dedup step keeps a record exactly when no earlier kept record
\* is a duplicate of it, so that a record whose only near-matching
\* predecessors were dropped is kept: the page holds min(limit, number
\* of records so kept) records, each of them one so kept.
C18_DedupComparesWithKeptOnly ==
    mPc = "merged" =>
        LET kept == KeptUpTo(Len(MergeInputs))
        IN  /\ Len(mOut) = Min(mLimit, Cardinality(kept))
            /\ \A i \in 1..Len(mOut) :
                  \E j \in kept : MergeInputs[j] = mOut[i]


\* The step in which getFromMongoDB resolves for the request in slot r.
LookupResolves(r) == req[r].pc = "lookup" /\ req'[r] # req[r]

\* queryPlaces asks the network.
AsksNetwork(r) == req'[r].pc = "network" /\ req'[r].net = "asked"

\* queryPlaces returns the held records without asking the network.
ReturnsHeldUnasked(r) ==
    /\ req'[r].pc = "done"
    /\ req'[r].net = "unasked"
    /\ ReturnedHeld(r)'

StoreHasNoDuplicates ==
    \A d1, d2 \in store :
        (d1.name = d2.name /\ d1.coordinates = d2.coordinates) => d1 = d2

\* C19: two identical /places requests in flight together are each
\* carried through on their own: whatever the interleaving, every request
\* that has arrived is answered, the store never holds two documents of
\* the same (name, coordinates), and the cache holds at most the one
\* entry of the key.
C19_ConcurrentRequestsBothComplete ==
    /\ [](StoreHasNoDuplicates /\ DOMAIN cache \subseteq {KeyOf(ConcQuery)})
    /\ \A r \in ConcSlots :
          (req[r].pc # "idle") ~> (req[r].pc = "done" /\ req[r].status # 0)

\* C19: both requests have missed the cache and both wait for the answer
\* of the external service.
C19_Witness ==
    \A r \in ConcSlots :
        /\ ~req[r].hit
        /\ req[r].pc = "network"
        /\ req[r].net = "asked"


\* ------------------------------------------------------------------
\* Properties of queryPlaces called on its own
\* ------------------------------------------------------------------

\* The call in slot r has returned records to its caller.
ReturnedRecords(r) == req[r].pc = "done" /\ req[r].status = 200

\* C21: a queryPlaces call whose latitude, longitude or radius is out of
\* range never asks the external service and ends in an error, never in
\* records.
C21_InvalidArgumentsEndInError ==
    \A r \in ServiceSlots :
        (/\ req[r].ctl = "service"
         /\ ~isValidCoordinate(req[r].query.lat, req[r].query.lon,
                               req[r].query.radius)) =>
            /\ req[r].net = "unasked"
            /\ req[r].pc = "done" => ~ReturnedRecords(r)


\* C22: a write-back leaves the source of every document the store already
\* holds as it was when the document was created.
C22_SourceNeverMutated ==
    [][\A d \in store : \A e \in store' :
          e.id = d.id => e.source = d.source]_vars


\* A document without its updatedAt.
WithoutUpdatedAt(d) ==
    [id |-> d.id, name |-> d.name, coordinates |-> d.coordinates,
     source |-> d.source]

\* C23: the store never holds two documents of one (name, longitude,
\* latitude), and writing back the records of a write-back a second time
\* changes no document in anything but its updatedAt.
C23_WriteBackIsIdempotentUpsert ==
    /\ [](\A d1, d2 \in store :
            (d1.name = d2.name /\ d1.coordinates = d2.coordinates)
                => d1.id = d2.id)
    /\ [][\A r \in ServiceSlots :
            (/\ req[r].pc = "write"
             /\ store' = storeInMongoDB(store, req[r].places, now)) =>
                LET again ==
                      storeInMongoDB(store', req[r].places, now + TickMs)
                IN  /\ Cardinality(again) = Cardinality(store')
                    /\ {WithoutUpdatedAt(d) : d \in again} =
                       {WithoutUpdatedAt(d) : d \in store'}]_vars

\* C23: both calls have fetched the same places and the second has
\* written them back over what the first wrote.
C23_Witness ==
    /\ req[1].pc = "done" /\ req[1].net = "answered"
    /\ req[2].pc = "done" /\ req[2].net = "answered"
    /\ Len(req[2].overpassData) > 0
    /\ KeysOfSeq(req[1].overpassData) = KeysOfSeq(req[2].overpassData)
    /\ \A i \in 1..Len(req[2].overpassData) :
          /\ req[2].overpassData[i].updatedAt > req[1].overpassData[i].updatedAt
          /\ \E d \in store :
               /\ d.name = req[2].overpassData[i].name
               /\ d.coordinates = req[2].overpassData[i].coordinates
               /\ d.updatedAt = req[2].overpassData[i].updatedAt


\* ------------------------------------------------------------------
\* Properties of parseResponse
\* ------------------------------------------------------------------

\* The record was made from the element: its name, and for each
\* coordinate the element's own or its center's.
RecordOf(record, element) ==
    /\ record.name = element.name
    /\ record.coordinates[1] \in {element.lon, element.center.lon}
    /\ record.coordinates[2] \in {element.lat, element.center.lat}

\* C24: every record parseResponse produces comes from an element of the
\* answer that has a name, has a coordinate pair (its own lat and lon, or
\* a center) and has no excluded value in its relevant tag.
C24_ParsedRecordsComeFromEligibleElements ==
    fPc = "applied" =>
        \A i \in 1..Len(fOut) :
            \E j \in 1..Len(fIn) :
                /\ RecordOf(fOut[i], fIn[j])
                /\ fIn[j].name # ""
                /\ \/ fIn[j].lat # 0 /\ fIn[j].lon # 0
                   \/ fIn[j].center # NoCenter
                /\ fIn[j].tag \notin EXCLUDED_VALUES

\* C24: an answer of one element that was kept for its center and one
\* that was dropped for its tag value.
C24_Witness ==
    /\ fPc = "applied"
    /\ Len(fIn) = 2 /\ Len(fOut) = 1
    /\ fIn[1].lat = 0 /\ fIn[1].center # NoCenter
    /\ fIn[1].tag \notin EXCLUDED_VALUES
    /\ fIn[2].name # "" /\ fIn[2].tag \in EXCLUDED_VALUES
    /\ fOut[1].coordinates[2] = fIn[1].center.lat


\* ------------------------------------------------------------------
\* Properties of the filter of the merge
\* ------------------------------------------------------------------

\* C25: no record of the merge output lacks a name, and each has exactly
\* two coordinates, both of them numbers.
C25_MergeOutputRecordsAreValid ==
    mPc = "merged" =>
        \A k \in 1..Len(mOut) :
            /\ mOut[k].name # ""
            /\ Len(mOut[k].coordinates) = 2
            /\ mOut[k].coordinates[1] # NaN
            /\ mOut[k].coordinates[2] # NaN

\* C25: the merge was given a record without a name and a record whose
\* coordinates are not two numbers, and the page has a record and room
\* for more.
C25_Witness ==
    /\ mPc = "merged"
    /\ \E i \in 1..Len(MergeInputs) : MergeInputs[i].name = ""
    /\ \E i \in 1..Len(MergeInputs) :
          /\ MergeInputs[i].name # ""
          /\ Len(MergeInputs[i].coordinates) = 2
          /\ MergeInputs[i].coordinates[1] = NaN
    /\ Len(mOut) >= 1
    /\ Len(mOut) < mLimit


\* ------------------------------------------------------------------
\* Properties of generateCacheKey
\* ------------------------------------------------------------------

\* A value in 1e-7 degree units rounded to 6 decimal places, in millionths
\* of a degree.
Round6(x) == IF x < 0 THEN 0 - ((0 - x + 5) \div 10) ELSE (x + 5) \div 10

\* C26: two queries get the same cache key exactly when their latitudes
\* agree after rounding to 6 decimal places, their longitudes do, and
\* their radius, page and limit are equal.
C26_SameKeyIffSameRoundedQuery ==
    fPc = "applied" =>
        ((fOut.a = fOut.b) <=>
            /\ Round6(fIn.a.lat) = Round6(fIn.b.lat)
            /\ Round6(fIn.a.lon) = Round6(fIn.b.lon)
            /\ fIn.a.radius = fIn.b.radius
            /\ fIn.a.page = fIn.b.page
            /\ fIn.a.limit = fIn.b.limit)

\* ------------------------------------------------------------------
\* C27 -- the rate limiter
\* ------------------------------------------------------------------
\* The key the step's request was counted under, taken from the answer.
GateStep == arrivals' = arrivals + 1 /\ gate' # <<>>

\* The step's request found a window of its key that was still running.
InsideWindow(key) ==
    key \in DOMAIN rateLimitStore /\ now < rateLimitStore[key].resetTime

\* The step's request came after the window of its key, or found none.
AfterWindow(key) ==
    key \notin DOMAIN rateLimitStore \/ now > rateLimitStore[key].resetTime

\* The step admitted its request into a new window that starts now.
StartsWindow(key) ==
    /\ gate'.handled /\ gate'.status = 200
    /\ rateLimitStore'[key] =
           [count |-> 1, resetTime |-> now + RATE_LIMIT_WINDOW]

\* The step admitted its request into the running window.
CountedInWindow(key) ==
    /\ gate'.handled /\ gate'.status = 200
    /\ key \in DOMAIN rateLimitStore
    /\ rateLimitStore[key].count < API_RATE_LIMIT
    /\ rateLimitStore'[key] =
           [rateLimitStore[key] EXCEPT !.count = @ + 1]

\* The step answered 429 itself and counted nothing.
Rejected(key, minRetryAfter) ==
    /\ gate'.status = 429 /\ ~gate'.handled
    /\ gate'.retryAfter >= minRetryAfter
    /\ key \in DOMAIN rateLimitStore
    /\ rateLimitStore[key].count >= API_RATE_LIMIT
    /\ rateLimitStore'[key] = rateLimitStore[key]

\* A request changes the record of its own key only.
OtherKeysUntouched(key) ==
    \A k \in DOMAIN rateLimitStore \ {key} :
        k \in DOMAIN rateLimitStore'
        /\ rateLimitStore'[k] = rateLimitStore[k]

\* C27: per client key at most 100 requests are admitted within one
\* 60-second window that starts with the first admitted request; every
\* further request in that window is answered 429 with a positive
\* retryAfter and reaches no route handler; the first request after the
\* window has ended is admitted and starts a new window.  A request that
\* arrives at the very instant the window ends is held to either reading:
\* it is admitted into a new window, or treated as one of the window's.
C27_WindowAdmitsAtMostLimit ==
    [][GateStep =>
        LET key == gate'.key
        IN  /\ OtherKeysUntouched(key)
            /\ rateLimitStore'[key].count <= API_RATE_LIMIT
            /\ AfterWindow(key) => StartsWindow(key)
            /\ InsideWindow(key) =>
                   CountedInWindow(key) \/ Rejected(key, 1)
            /\ ~AfterWindow(key) /\ ~InsideWindow(key) =>
                   \/ StartsWindow(key)
                   \/ CountedInWindow(key)
                   \/ Rejected(key, 1)]_vars

\* The same, with a retryAfter of zero allowed at the instant the window
\* ends.
WindowAdmitsAtMostLimitZeroAtEnd ==
    [][GateStep =>
        LET key == gate'.key
        IN  /\ OtherKeysUntouched(key)
            /\ rateLimitStore'[key].count <= API_RATE_LIMIT
            /\ AfterWindow(key) => StartsWindow(key)
            /\ InsideWindow(key) =>
                   CountedInWindow(key) \/ Rejected(key, 1)
            /\ ~AfterWindow(key) /\ ~InsideWindow(key) =>
                   CountedInWindow(key) \/ Rejected(key, 0)]_vars

\* A request was answered 429 inside a full window.
C27_Witness ==
    /\ gate # <<>>
    /\ gate.status = 429
    /\ gate.retryAfter > 0
    /\ rateLimitStore[gate.key].count = API_RATE_LIMIT

\* ------------------------------------------------------------------
\* C28 -- what the result cache holds
\* ------------------------------------------------------------------
\* The page under `key` is sorted ascending by distance, free of
\* duplicates and no longer than the limit the key ends with.
CachedPageWellFormed(key) ==
    LET page == cache[key].value
    IN  /\ Len(page) <= key[5]
        /\ \A i \in 1..(Len(page) - 1) :
              NumLeq(page[i].distance, page[i + 1].distance)
        /\ \A i, j \in 1..Len(page) :
              i < j => ~Duplicates(page[i], page[j])

\* The step stored a value under `key`.
CacheWritten(key) ==
    /\ key \in DOMAIN cache'
    /\ key \in DOMAIN cache =>
           \/ cache'[key].written # cache[key].written
           \/ cache'[key].value # cache[key].value

\* The step ends request r, a cache=true request for `key` that missed the
\* cache and went through the merge, with the stored page as its answer.
MergeMissEnds(r, key) ==
    /\ req[r].pc \in {"lookup", "network", "write", "fallback"}
    /\ req'[r].pc = "done" /\ req'[r].status = 200
    /\ req[r].query.cache
    /\ KeyOf(req[r].query) = key
    /\ ~req[r].hit
    /\ req[r].external
    /\ cache'[key].value = req'[r].body.results

\* The step answers request r from the page of the local store alone.
LocalPageEnds(r) ==
    /\ req[r].pc = "mongo"
    /\ req'[r].pc = "done" /\ req'[r].status = 200

\* C28: in every reachable state each result-cache entry was written by a
\* cache=true request that missed and took the merge path, and its value
\* is a page sorted ascending by distance, duplicate-free and no longer
\* than the limit encoded in its key; a request answered from the local
\* store alone never writes the cache.
C28_CacheHoldsMergedPagesOnly ==
    /\ [](\A key \in DOMAIN cache : CachedPageWellFormed(key))
    /\ [][/\ \A key \in DOMAIN cache' :
                CacheWritten(key) => \E r \in Slots : MergeMissEnds(r, key)
          /\ \A r \in Slots : LocalPageEnds(r) => cache' = cache]_vars

\* C28 witness: the cache holds a merged page of two records and the
\* latest request, a miss, has been answered from the local store alone.
C28_Witness ==
    /\ \E key \in DOMAIN cache : Len(cache[key].value) >= 2
    /\ \E r \in Slots :
          /\ req[r].pc = "done" /\ req[r].status = 200
          /\ ~req[r].hit /\ ~req[r].external

\* ------------------------------------------------------------------
\* C29 -- pages of one query
\* ------------------------------------------------------------------
\* Request r was answered 200 with a page computed from the store as it
\* was: no cache hit, and no call to the external service, so that nothing
\* was written back either.
AnsweredFromFixedData(r) ==
    /\ req[r].pc = "done" /\ req[r].status = 200
    /\ ~req[r].hit
    /\ req[r].net = "unasked"

\* Two records of the same place.
SameRecord(a, b) == a.name = b.name /\ a.coordinates = b.coordinates

\* C29: for a fixed local store and fixed external data, the result sets
\* returned by /places for page 1 and for page 2 of the same (lat, lon,
\* radius, limit) have no record in common.
C29_PagesShareNoRecord ==
    (/\ AnsweredFromFixedData(1) /\ AnsweredFromFixedData(2)
     /\ req[1].query.page = 1
     /\ req[2].query = [req[1].query EXCEPT !.page = 2])
    => \A i \in 1..Len(req[1].body.results) :
          \A j \in 1..Len(req[2].body.results) :
             ~SameRecord(req[1].body.results[i], req[2].body.results[j])

\* ------------------------------------------------------------------
\* C30 -- the second queryPlaces after a write-back
\* ------------------------------------------------------------------
\* Every record call r returned is in the store as an overpass document
\* written by that call or later.
WrittenBack(r) ==
    \A i \in 1..Len(req[r].overpassData) :
        \E d \in store :
            /\ d.name = req[r].overpassData[i].name
            /\ d.coordinates = req[r].overpassData[i].coordinates
            /\ d.source = "overpass"
            /\ d.updatedAt >= req[r].overpassData[i].updatedAt

\* Call r fetched from the external service, parsed at least one record
\* and wrote the records back.
FetchedAndWroteBack(r) ==
    /\ req[r].ctl = "service"
    /\ req[r].pc = "done" /\ req[r].status = 200
    /\ req[r].net = "answered"
    /\ Len(req[r].overpassData) > 0
    /\ WrittenBack(r)

\* The step is the one on which the lookup of call r in the store returns.
LookupSettles(r) == req[r].pc = "lookup" /\ req'[r] # req[r]

\* The step ends call r with records of the store and no network call.
ServedFromStore(r) ==
    /\ req'[r].pc = "done" /\ req'[r].status = 200
    /\ req'[r].net = "unasked"
    /\ Len(req'[r].overpassData) > 0
    /\ \A i \in 1..Len(req'[r].overpassData) :
          \E d \in store :
              /\ d.name = req'[r].overpassData[i].name
              /\ d.coordinates = req'[r].overpassData[i].coordinates

\* C30: after queryPlaces has fetched from the external service, parsed
\* at least one record and written the records back successfully, a
\* second queryPlaces for the same (lat, lon, radius) within 24 hours is
\* answered from the local store without a network call.
C30_SecondCallServedFromStore ==
    [][(/\ FetchedAndWroteBack(1)
        /\ req[2].query = req[1].query
        /\ now < CACHE_DURATION
        /\ LookupSettles(2))
       => ServedFromStore(2)]_vars

\* The same when no document older than 24 hours lies within the radius.
SecondCallServedFromStoreUnlessLeftover ==
    [][(/\ FetchedAndWroteBack(1)
        /\ req[2].query = req[1].query
        /\ now < CACHE_DURATION
        /\ \A d \in store : now - d.updatedAt < CACHE_DURATION
        /\ LookupSettles(2))
       => ServedFromStore(2)]_vars

====
